---- MODULE Spec2Model ----
(***************************************************************************)
(* CameraManager (src/core.py) as a state machine.                         *)
(*                                                                         *)
(* The manager runs on one asyncio event loop: a coroutine runs without    *)
(* interruption from one await that suspends to the next, so every action  *)
(* below is the code between two suspension points.  asyncio.to_thread     *)
(* suspends the caller; the function it was given runs in a worker thread  *)
(* (a Thread... action) and the caller is resumed in a later step.         *)
(* Callers are the request handlers of src/api.py, which call the manager  *)
(* concurrently.  Tasks are the Capture Loops created by start.            *)
(***************************************************************************)
EXTENDS Naturals, Integers, FiniteSets, Sequences

NCallers == 2       \* request handlers that may be in flight at once
MaxHandles == 2     \* cv2.VideoCapture objects made in one behaviour
MaxFrames == 2      \* frames the device delivers in one behaviour
NUsers == 2         \* caller identities (x-user-id values) seen
TicksPerSecond == 2 \* resolution of the clock
MaxTime == 2        \* ticks the clock advances in one behaviour
MaxRequests == 8    \* rate-limited requests in one behaviour

Callers == 1..NCallers

Users == 1..NUsers

\* a request without the x-user-id header
NoUser == 0

\* TokenBucket(rate=1.0, capacity=5)
Rate == 1
Capacity == 5

\* token counts are kept in units of 1/TicksPerSecond token, so that
\* delta * rate is a whole number of units for every clock reading
Unit == TicksPerSecond

\* every start that spawns a task has made a capture first
TaskIds == 1..MaxHandles

VARIABLES
    running,    \* self._running
    paused,     \* self._paused
    cap,        \* self._cap: 0 is None, else a handle
    task,       \* self._task: 0 is None, else a Capture Loop task
    latest,     \* self._latest_frame: 0 is None, else the number of the frame
    pillow,     \* Image is not None (Pillow was importable)
    handles,    \* the cv2.VideoCapture objects made so far
    tasks,      \* the Capture Loop tasks made so far
    call,       \* the manager call each caller is in
    nframes,    \* frames encoded and published so far
    now,        \* time.time(), in ticks
    buckets,    \* _buckets: the TokenBucket of each caller identity
    hist,       \* per identity: when its bucket was made, and its consumes
    resp        \* the rate limiter's answer to the last request

vars == <<running, paused, cap, task, latest, pillow, handles, tasks, call,
          nframes, now, buckets, hist, resp>>

\* what no manager step touches
env == <<pillow, now, buckets, hist, resp>>

mgr == <<running, paused, cap, task>>

NoCall == [pc |-> "idle", op |-> "none", res |-> "none", h |-> 0, arg |-> 0,
           b |-> FALSE, sp |-> FALSE, fr |-> 0,
           st |-> [running |-> FALSE, paused |-> FALSE, has_frame |-> FALSE]]

NoBucket == [made |-> FALSE, tokens |-> 0, timestamp |-> 0]

NoHist == [born |-> 0, log |-> << >>]

Init ==
    /\ running = FALSE
    /\ paused = FALSE
    /\ cap = 0
    /\ task = 0
    /\ latest = 0
    /\ pillow \in BOOLEAN
    /\ handles = << >>
    /\ tasks = << >>
    /\ call = [c \in Callers |-> NoCall]
    /\ nframes = 0
    /\ now = 0
    /\ buckets = [u \in Users |-> NoBucket]
    /\ hist = [u \in Users |-> NoHist]
    /\ resp = 0

----
\* Helpers

\* cv2.VideoCapture.isOpened(): the device was opened and not released since
IsOpened(h) == handles[h].ok /\ handles[h].rel = 0

\* asyncio.Task.done()
TaskDone(t) == tasks[t].pc \in {"done", "failed"}

Alive == {t \in 1..Len(tasks) : ~TaskDone(t)}

OpenHandles == {h \in 1..Len(handles) : IsOpened(h)}

AllIdle == \A c \in Callers : call[c].pc = "idle"

\* the call record of caller c as it enters operation o
Begun(c, o) == [call EXCEPT ![c] = [NoCall EXCEPT !.op = o]]

CanBegin(c) == call[c].pc = "idle"

\* start without its test of self._running
StartNeverNoOp == FALSE

\* "if self._running: return" of start
StartIsNoOp == running

\* a resume that never opens the camera
ResumeNeverStarts == FALSE

\* resume that goes through start whatever the state
ResumeAlwaysStarts == TRUE

\* "if not self._running: await self.start()" of resume
ResumeStarts == ~running

NewTask == [pc |-> "check", h |-> 0]

\* captures made or being made by a worker thread
Opening == Len(handles) + Cardinality({c \in Callers : call[c].pc = "open_call"})

----
\* CameraManager.start

\* start up to its first await: return at once when running, else hand
\* cv2.VideoCapture to a worker thread
StartEntry(c, o) ==
    /\ StartIsNoOp \/ Opening < MaxHandles
    /\ call' = IF StartIsNoOp
               THEN [Begun(c, o) EXCEPT ![c].pc = "ret", ![c].res = "ok"]
               ELSE [Begun(c, o) EXCEPT ![c].pc = "open_call"]
    /\ UNCHANGED <<running, paused, cap, task>>

CallStart(c) ==
    /\ CanBegin(c)
    /\ StartEntry(c, "start")
    /\ UNCHANGED <<latest, env, handles, tasks, nframes>>

\* cv2.VideoCapture(device_index) in the worker thread: the device opens or not
ThreadOpen(c) ==
    /\ call[c].pc = "open_call"
    /\ \E ok \in BOOLEAN :
          handles' = Append(handles, [ok |-> ok, rel |-> 0])
    /\ call' = [call EXCEPT ![c].pc = "open_ret", ![c].h = Len(handles) + 1]
    /\ UNCHANGED <<mgr, latest, env, tasks, nframes>>

\* self._cap = <the new capture>; then self._cap.isOpened goes to a thread
StartOpened(c) ==
    /\ call[c].pc = "open_ret"
    /\ cap' = call[c].h
    /\ call' = [call EXCEPT ![c].pc = "isopen_call", ![c].arg = call[c].h]
    /\ UNCHANGED <<running, paused, task, latest, env, handles, tasks,
                   nframes>>

ThreadIsOpened(c) ==
    /\ call[c].pc = "isopen_call"
    /\ call' = [call EXCEPT ![c].pc = "isopen_ret",
                            ![c].b = IsOpened(call[c].arg)]
    /\ UNCHANGED <<mgr, latest, env, handles, tasks, nframes>>

\* the handle start releases when isOpened answered false: self._cap as it
\* is when the coroutine is resumed
FailedOpenTarget(c) == cap

\* start that raises on a failed open without releasing the capture
StartCheckedNoRelease(c) ==
    /\ call[c].pc = "isopen_ret"
    /\ IF call[c].b
       THEN /\ running' = TRUE
            /\ paused' = FALSE
            /\ tasks' = Append(tasks, NewTask)
            /\ task' = Len(tasks) + 1
            /\ call' = [call EXCEPT ![c].pc = "ret", ![c].res = "ok",
                                    ![c].sp = TRUE]
            /\ UNCHANGED cap
       ELSE /\ call' = [call EXCEPT ![c].pc = "ret",
                                    ![c].res = "DeviceUnavailable"]
            /\ UNCHANGED <<mgr, tasks>>
    /\ UNCHANGED <<latest, env, handles, nframes>>

\* a start that leaves the paused flag as it finds it
StartCheckedKeepsPaused(c) ==
    /\ call[c].pc = "isopen_ret"
    /\ IF call[c].b
       THEN /\ running' = TRUE
            /\ tasks' = Append(tasks, NewTask)
            /\ task' = Len(tasks) + 1
            /\ call' = [call EXCEPT ![c].pc = "ret", ![c].res = "ok",
                                    ![c].sp = TRUE]
            /\ UNCHANGED <<paused, cap>>
       ELSE /\ call' = IF FailedOpenTarget(c) = 0
                       THEN [call EXCEPT ![c].pc = "ret", ![c].res = "error"]
                       ELSE [call EXCEPT ![c].pc = "rel_call",
                                         ![c].arg = FailedOpenTarget(c)]
            /\ UNCHANGED <<mgr, tasks>>
    /\ UNCHANGED <<latest, env, handles, nframes>>

\* after isOpened: either release and raise, or set the flags and spawn the loop
StartChecked(c) ==
    /\ call[c].pc = "isopen_ret"
    /\ IF call[c].b
       THEN /\ running' = TRUE
            /\ paused' = FALSE
            /\ tasks' = Append(tasks, NewTask)
            /\ task' = Len(tasks) + 1
            /\ call' = [call EXCEPT ![c].pc = "ret", ![c].res = "ok",
                                    ![c].sp = TRUE]
            /\ UNCHANGED cap
       ELSE /\ call' = IF FailedOpenTarget(c) = 0
                       THEN [call EXCEPT ![c].pc = "ret", ![c].res = "error"]
                       ELSE [call EXCEPT ![c].pc = "rel_call",
                                         ![c].arg = FailedOpenTarget(c)]
            /\ UNCHANGED <<mgr, tasks>>
    /\ UNCHANGED <<latest, env, handles, nframes>>

\* cv2.VideoCapture.release() in the worker thread
ThreadRelease(c) ==
    /\ call[c].pc = "rel_call"
    /\ handles' = [handles EXCEPT ![call[c].arg].rel = @ + 1]
    /\ call' = [call EXCEPT ![c].pc = "rel_ret"]
    /\ UNCHANGED <<mgr, latest, env, tasks, nframes>>

\* raise RuntimeError("Unable to open camera device")
StartFailed(c) ==
    /\ call[c].pc = "rel_ret"
    /\ call[c].op \in {"start", "resume"}
    /\ call' = [call EXCEPT ![c].pc = "ret", ![c].res = "DeviceUnavailable"]
    /\ UNCHANGED <<mgr, latest, env, handles, tasks, nframes>>

----
\* CameraManager.pause, resume

CallPause(c) ==
    /\ CanBegin(c)
    /\ paused' = TRUE
    /\ call' = [Begun(c, "pause") EXCEPT ![c].pc = "ret", ![c].res = "ok"]
    /\ UNCHANGED <<running, cap, task, latest, env, handles, tasks,
                   nframes>>

CallResume(c) ==
    /\ CanBegin(c)
    /\ IF ResumeStarts
       THEN StartEntry(c, "resume")
       ELSE /\ paused' = FALSE
            /\ call' = [Begun(c, "resume") EXCEPT ![c].pc = "ret",
                                                  ![c].res = "ok"]
            /\ UNCHANGED <<running, cap, task>>
    /\ UNCHANGED <<latest, env, handles, tasks, nframes>>

----
\* CameraManager.stop

\* "if self._cap is not None: release ...; self._task = None", entered
\* once the task, if any, has been joined; base is the call record so far
StopTail(c, base) ==
    IF cap # 0
    THEN /\ call' = [base EXCEPT ![c].pc = "rel_call", ![c].arg = cap]
         /\ UNCHANGED <<cap, task>>
    ELSE /\ call' = [base EXCEPT ![c].pc = "ret", ![c].res = "ok"]
         /\ task' = 0
         /\ UNCHANGED cap

\* "await self._task" on a task that is done: its exception, if any, is raised
StopJoin(c, base, t) ==
    IF tasks[t].pc = "failed"
    THEN /\ call' = [base EXCEPT ![c].pc = "ret", ![c].res = "error"]
         /\ UNCHANGED <<cap, task>>
    ELSE StopTail(c, base)

\* the task stop waits for
StopAwaits == task

CallStop(c) ==
    /\ CanBegin(c)
    /\ running' = FALSE
    /\ IF StopAwaits # 0
       THEN IF TaskDone(StopAwaits)
            THEN StopJoin(c, Begun(c, "stop"), StopAwaits)
            ELSE /\ call' = [Begun(c, "stop") EXCEPT ![c].pc = "await_task",
                                                     ![c].arg = StopAwaits]
                 /\ UNCHANGED <<cap, task>>
       ELSE StopTail(c, Begun(c, "stop"))
    /\ UNCHANGED <<paused, latest, env, handles, tasks, nframes>>

\* the awaited task has finished and stop is resumed
StopJoined(c) ==
    /\ call[c].pc = "await_task"
    /\ TaskDone(call[c].arg)
    /\ StopJoin(c, call, call[c].arg)
    /\ UNCHANGED <<running, paused, latest, env, handles, tasks, nframes>>

\* a stop that also empties the Frame Store
StopReleasedClearsFrame(c) ==
    /\ call[c].pc = "rel_ret"
    /\ call[c].op = "stop"
    /\ cap' = 0
    /\ task' = 0
    /\ latest' = 0
    /\ call' = [call EXCEPT ![c].pc = "ret", ![c].res = "ok"]
    /\ UNCHANGED <<running, paused, env, handles, tasks, nframes>>

\* release has returned: self._cap = None; self._task = None
StopReleased(c) ==
    /\ call[c].pc = "rel_ret"
    /\ call[c].op = "stop"
    /\ cap' = 0
    /\ task' = 0
    /\ call' = [call EXCEPT ![c].pc = "ret", ![c].res = "ok"]
    /\ UNCHANGED <<running, paused, latest, env, handles, tasks, nframes>>

----
\* CameraManager.status, get_latest_frame

Status == [running |-> running, paused |-> paused, has_frame |-> latest # 0]

CallStatus(c) ==
    /\ CanBegin(c)
    /\ call' = [Begun(c, "status") EXCEPT ![c].pc = "ret", ![c].res = "ok",
                                          ![c].st = Status]
    /\ UNCHANGED <<mgr, latest, env, handles, tasks, nframes>>

\* the lock is never held across an await, so it is free whenever a
\* coroutine runs and "async with self._lock" does not suspend
CallGetLatestFrame(c) ==
    /\ CanBegin(c)
    /\ call' = [Begun(c, "get_latest_frame") EXCEPT ![c].pc = "ret",
                                                    ![c].res = "ok",
                                                    ![c].fr = latest]
    /\ UNCHANGED <<mgr, latest, env, handles, tasks, nframes>>

\* the call returns (or raises) to its caller
Return(c) ==
    /\ call[c].pc = "ret"
    /\ call' = [call EXCEPT ![c] = NoCall]
    /\ UNCHANGED <<mgr, latest, env, handles, tasks, nframes>>

----
\* CameraManager._capture_loop
\* A task at "check" is at the loop condition, or in an asyncio.sleep that
\* leads to it.

SetTask(t, p) == tasks' = [tasks EXCEPT ![t].pc = p]

\* "while self._running and self._cap is not None"
LoopContinues == running /\ cap # 0

\* a loop that does not look at self._paused
LoopNeverSkips == FALSE

\* "if self._paused: sleep(0.1); continue"
LoopSkips == paused

\* the loop condition, the paused test, and the hand-over of self._cap.read
TaskCheck(t) ==
    /\ t <= Len(tasks)
    /\ tasks[t].pc = "check"
    /\ IF ~LoopContinues
       THEN SetTask(t, "done")
       ELSE IF LoopSkips
            THEN UNCHANGED tasks
            ELSE tasks' = [tasks EXCEPT ![t].pc = "read_call", ![t].h = cap]
    /\ UNCHANGED <<mgr, latest, env, handles, call, nframes>>

\* cv2.VideoCapture.read() in the worker thread gives a frame only from an
\* open device, and not always.  "if not ret: sleep(0.1); continue", else
\* cvtColor goes to a thread
TaskRead(t) ==
    /\ t <= Len(tasks)
    /\ tasks[t].pc = "read_call"
    /\ \E ret \in BOOLEAN :
          /\ ret => (IsOpened(tasks[t].h) /\ nframes < MaxFrames)
          /\ SetTask(t, IF ret THEN "cvt_call" ELSE "check")
    /\ UNCHANGED <<mgr, latest, env, handles, call, nframes>>

\* the same hand-over when the device reads keep succeeding: an open device
\* gives a frame whenever it is asked
TaskReadGood(t) ==
    /\ t <= Len(tasks)
    /\ tasks[t].pc = "read_call"
    /\ SetTask(t, IF IsOpened(tasks[t].h) /\ nframes < MaxFrames
                  THEN "cvt_call" ELSE "check")
    /\ UNCHANGED <<mgr, latest, env, handles, call, nframes>>

\* "async with self._lock: self._latest_frame = jpeg" for an encoded frame
Publish ==
    /\ latest' = nframes + 1
    /\ nframes' = nframes + 1

\* what the OpenCV fallback stores when imencode reports failure: jpeg = None
FailedEncode == 0

\* cvtColor has returned; with Pillow the frame is encoded and published
\* here, without it imencode goes to a thread.  An exception of cvtColor,
\* Image.fromarray or img.save leaves the loop: there is no except clause
TaskConverted(t) ==
    /\ t <= Len(tasks)
    /\ tasks[t].pc = "cvt_call"
    /\ \E o \in {"ok", "raise"} :
          IF o = "raise"
          THEN SetTask(t, "failed") /\ UNCHANGED <<latest, nframes>>
          ELSE IF pillow
               THEN SetTask(t, "check") /\ Publish
               ELSE SetTask(t, "enc_call") /\ UNCHANGED <<latest, nframes>>
    /\ UNCHANGED <<mgr, env, handles, call>>

\* cv2.imencode has returned (ret2, jpeg), or raised
TaskEncoded(t) ==
    /\ t <= Len(tasks)
    /\ tasks[t].pc = "enc_call"
    /\ \E o \in {"ok", "fail", "raise"} :
          IF o = "raise"
          THEN SetTask(t, "failed") /\ UNCHANGED <<latest, nframes>>
          ELSE IF o = "ok"
               THEN SetTask(t, "check") /\ Publish
               ELSE /\ SetTask(t, "check")
                    /\ latest' = FailedEncode
                    /\ UNCHANGED nframes
    /\ UNCHANGED <<mgr, env, handles, call>>

----
\* The rate limiter

Min(a, b) == IF a <= b THEN a ELSE b

\* min(self.capacity, self.tokens + delta * self.rate)
Refill(b, t) == Min(Capacity * Unit, b.tokens + (t - b.timestamp) * Rate)

\* a consume that takes the tokens without looking at the count
ConsumeUnchecked(b, n, t) ==
    [made |-> TRUE, tokens |-> Refill(b, t) - n * Unit, timestamp |-> t]

\* TokenBucket.consume(n) at clock reading t: the bucket afterwards
Consume(b, n, t) ==
    LET filled == Refill(b, t)
    IN  [made |-> TRUE,
         tokens |-> IF filled >= n * Unit THEN filled - n * Unit ELSE filled,
         timestamp |-> t]

\* what consume(n) returns
Consumed(b, n, t) == Refill(b, t) >= n * Unit

\* a bucket that starts with no tokens
EmptyBucket(t) == [made |-> TRUE, tokens |-> 0, timestamp |-> t]

\* TokenBucket(rate, capacity) made at clock reading t
FreshBucket(t) == [made |-> TRUE, tokens |-> Capacity * Unit, timestamp |-> t]

\* get_bucket_for_user
BucketFor(u) == IF buckets[u].made THEN buckets[u] ELSE FreshBucket(now)

\* consume calls made so far by identities 1..k
RECURSIVE ConsumesUpTo(_)
ConsumesUpTo(k) ==
    IF k = 0 THEN 0 ELSE Len(hist[k].log) + ConsumesUpTo(k - 1)

Requests == ConsumesUpTo(NUsers)

\* rate_limit_middleware for a request carrying identity u
RateLimit(u) ==
    /\ Requests < MaxRequests
    /\ IF u = NoUser
       THEN /\ resp' = 400
            /\ UNCHANGED <<buckets, hist>>
       ELSE LET b == BucketFor(u)
                ok == Consumed(b, 1, now)
            IN  /\ buckets' = [buckets EXCEPT ![u] = Consume(b, 1, now)]
                /\ hist' = [hist EXCEPT
                       ![u].born = IF buckets[u].made THEN @ ELSE now,
                       ![u].log = Append(@, [t |-> now, ok |-> ok])]
                /\ resp' = IF ok THEN 200 ELSE 429
    /\ UNCHANGED <<mgr, latest, pillow, handles, tasks, call, nframes, now>>

\* the clock moves on
Tick ==
    /\ now < MaxTime
    /\ now' = now + 1
    /\ UNCHANGED <<mgr, latest, pillow, handles, tasks, call, nframes,
                   buckets, hist, resp>>

----
\* a caller begins a call
Calls(c) ==
    \/ CallStart(c)
    \/ CallPause(c)
    \/ CallResume(c)
    \/ CallStop(c)
    \/ CallStatus(c)
    \/ CallGetLatestFrame(c)

\* a call in flight, or a worker thread on its behalf, takes a step
Steps(c) ==
    \/ ThreadOpen(c)
    \/ StartOpened(c)
    \/ ThreadIsOpened(c)
    \/ StartChecked(c)
    \/ ThreadRelease(c)
    \/ StartFailed(c)
    \/ StopJoined(c)
    \/ StopReleased(c)
    \/ Return(c)

\* a Capture Loop, or a worker thread on its behalf, takes a step
Loop(t) ==
    \/ TaskCheck(t)
    \/ TaskRead(t)
    \/ TaskConverted(t)
    \/ TaskEncoded(t)

\* request handlers call the manager concurrently
Next ==
    \/ \E c \in Callers : Calls(c)
    \/ \E c \in Callers : Steps(c)
    \/ \E t \in TaskIds : Loop(t)

Spec == Init /\ [][Next]_vars

\* one caller at a time: a call begins only when no call is in flight
NextSeq ==
    \/ \E c \in Callers : AllIdle /\ Calls(c)
    \/ \E c \in Callers : Steps(c)
    \/ \E t \in TaskIds : Loop(t)

SpecSeq == Init /\ [][NextSeq]_vars

\* the event loop runs every coroutine that is ready and every worker thread
\* finishes: no call in flight and no Capture Loop is left waiting for ever
\* for a step it can take; callers need not make any call
SpecFair ==
    /\ Init /\ [][Next]_vars
    /\ \A c \in Callers : WF_vars(Steps(c))
    /\ \A t \in TaskIds : WF_vars(Loop(t))

\* a Capture Loop whose device reads keep succeeding
LoopGood(t) ==
    \/ TaskCheck(t)
    \/ TaskReadGood(t)
    \/ TaskConverted(t)
    \/ TaskEncoded(t)

NextSeqGood ==
    \/ \E c \in Callers : AllIdle /\ Calls(c)
    \/ \E c \in Callers : Steps(c)
    \/ \E t \in TaskIds : LoopGood(t)

\* one caller at a time, a device whose reads keep succeeding, and the fair
\* scheduling of SpecFair
SpecSeqFair ==
    /\ Init /\ [][NextSeqGood]_vars
    /\ \A c \in Callers : WF_vars(Steps(c))
    /\ \A t \in TaskIds : WF_vars(LoopGood(t))

\* the rate limiter alone: requests arrive as the clock moves on
NextBucket ==
    \/ \E u \in Users \cup {NoUser} : RateLimit(u)
    \/ Tick

SpecBucket == Init /\ [][NextBucket]_vars

----
\* Properties

\* a caller begins operation o in this step
Begins(c, o) == call[c].pc = "idle" /\ call'[c].op = o

\* call c has come back from operation o and its caller has not moved on
Returned(c, o) == call[c].pc = "ret" /\ call[c].op = o

\* operation o of caller c comes to its end in this step
Finishes(c, o) ==
    call[c].pc # "ret" /\ call'[c].pc = "ret" /\ call'[c].op = o

\* a Capture Loop gets the answer of a device read in this step
ReadsDevice(t) == tasks[t].pc = "read_call" /\ tasks'[t].pc # "read_call"

C2_FailedOpenReleases ==
    \A c \in Callers :
        ( /\ call[c].pc = "ret"
          /\ call[c].op \in {"start", "resume"}
          /\ call[c].h # 0
          /\ ~handles[call[c].h].ok ) =>
            /\ call[c].res = "DeviceUnavailable"
            /\ ~running
            /\ ~call[c].sp
            /\ Alive = {}
            /\ handles[call[c].h].rel >= 1
            /\ ~IsOpened(call[c].h)

\* resume on a stopped manager has raised after a failed open
C2_Witness ==
    \E c \in Callers :
        /\ Returned(c, "resume") /\ call[c].res = "DeviceUnavailable"
        /\ call[c].h # 0 /\ handles[call[c].h].rel = 1

\* C3: when a stop call returns, the manager is stopped, no Capture Loop is
\* still executing and no capture is open, whatever calls were in flight
C3_StopLeavesStopped ==
    [][\A c \in Callers :
          (Finishes(c, "stop") /\ call'[c].res = "ok") =>
              /\ ~running'
              /\ Alive' = {}
              /\ OpenHandles' = {}]_vars

\* the manager, or a call about to store it, still refers to capture h
Held(h) ==
    \/ cap = h
    \/ \E c \in Callers : call[c].pc = "open_ret" /\ call[c].h = h

\* C4: every capture is released exactly once: release is never invoked
\* twice on the same capture, and no opened capture is dropped unreleased
C4_ReleasedExactlyOnce ==
    \A h \in 1..Len(handles) :
        /\ handles[h].rel <= 1
        /\ (handles[h].ok /\ handles[h].rel = 0) => Held(h)

\* C5: at most one capture is open and at most one Capture Loop is alive,
\* under any interleaving of calls
C5_AtMostOne ==
    /\ Cardinality(OpenHandles) <= 1
    /\ Cardinality(Alive) <= 1

\* C6: the Capture Loop never reads from a capture that has been released
C6_NoReadAfterRelease ==
    [][\A t \in 1..Len(tasks) :
          ReadsDevice(t) => handles[tasks[t].h].rel = 0]_vars

\* C7: pause, and resume on a running manager, change only the paused flag:
\* the capture is neither released nor reopened, the task is neither
\* replaced nor ended, under any interleaving of calls
C7_PauseResumeKeepDevice ==
    [][\A c \in Callers :
          ((Begins(c, "pause") \/ Begins(c, "resume")) /\ running) =>
              /\ UNCHANGED <<running, cap, task, handles, tasks, latest>>
              /\ paused' = Begins(c, "pause")
              /\ call'[c].pc = "ret"
              /\ call'[c].h = 0]_vars

\* pause then resume on a running manager: same capture, open, and its loop
C7_Witness ==
    \E c \in Callers :
        /\ Returned(c, "resume") /\ call[c].h = 0
        /\ running /\ ~paused /\ cap # 0 /\ IsOpened(cap)
        /\ Len(handles) = 1 /\ Alive = {task}

\* C8: pause moves Running to Paused and changes nothing that status reports
\* when the manager is already Paused or is Stopped
C8_PauseNoOp ==
    [][\A c \in Callers :
          Begins(c, "pause") =>
              IF running /\ ~paused THEN paused' /\ running'
                                    ELSE Status' = Status]_vars

\* pause has returned and no start, resume, stop or pause call has come back
\* or is in flight
Pausing ==
    /\ running
    /\ paused
    /\ \A c \in Callers :
          \/ call[c].pc = "idle"
          \/ call[c].pc = "ret" /\ call[c].op \in {"status", "get_latest_frame"}

\* every live Capture Loop is at its loop condition, or asleep before it
AtBoundary == \A t \in Alive : tasks[t].pc = "check"

\* C9 as claimed: from the return of pause until the next resume, start or
\* stop the loop does not read and the latest frame does not change
C9_NothingAfterPause ==
    [][Pausing =>
          /\ latest' = latest
          /\ \A t \in 1..Len(tasks) : ~ReadsDevice(t)]_vars

\* C9 amended: once pause has returned and the loop is at its iteration
\* boundary, it neither reads nor publishes, and stays at the boundary,
\* until the next resume, start or stop.  (Calls one at a time.)
C9_PausedLoopIsQuiet ==
    [][(Pausing /\ AtBoundary) =>
          /\ latest' = latest
          /\ \A t \in 1..Len(tasks) :
                /\ ~ReadsDevice(t)
                /\ tasks'[t].pc \in {"check", "done", "failed"}]_vars

\* paused, with a frame published and the loop waiting at its boundary
C9_Witness ==
    /\ Pausing /\ AtBoundary /\ AllIdle
    /\ Alive # {} /\ latest # 0

\* C10: get_latest_frame gives None exactly until the first frame has been
\* published, and a frame ever after
C10_FrameOnceAlways ==
    /\ nframes = 0 => latest = 0
    /\ nframes > 0 => latest # 0

\* C11: only the Capture Loop writes the Frame Store: no step of start,
\* pause, resume, stop, status or get_latest_frame changes the latest frame,
\* so a frame published before stop is still there when stop has returned
C11_OnlyLoopWritesFrame ==
    [][(call' # call) => latest' = latest]_vars

\* stop has released the capture and returned, and the frame is still there
C11_Witness ==
    \E c \in Callers :
        /\ Returned(c, "stop") /\ call[c].res = "ok"
        /\ ~running /\ cap = 0 /\ Alive = {}
        /\ latest # 0
        /\ \E h \in 1..Len(handles) : handles[h].ok /\ handles[h].rel = 1

\* the consumes of identity u number i and earlier were all made at the
\* clock reading at which its bucket was made
AtBirth(u, i) == i <= Len(hist[u].log) /\ hist[u].log[i].t = hist[u].born

\* consume number i of identity u is the first one at its clock reading
FirstAt(u, i) == i = 1 \/ hist[u].log[i - 1].t < hist[u].log[i].t

\* C12: for each caller identity, of the consumes made before any time has
\* passed since its bucket was made exactly the first five succeed; when five
\* or more were made then, no consume succeeds until one second has passed,
\* and of the consumes made exactly one second later only the first succeeds
C12_BurstOfFiveThenOnePerSecond ==
    \A u \in Users : \A i \in 1..Len(hist[u].log) :
        LET e == hist[u].log[i]
            born == hist[u].born
        IN  /\ e.t = born => (e.ok <=> i <= Capacity)
            /\ AtBirth(u, Capacity) /\ born < e.t /\ e.t < born + TicksPerSecond
                  => ~e.ok
            /\ AtBirth(u, Capacity) /\ e.t = born + TicksPerSecond
                  => (e.ok <=> FirstAt(u, i))

\* six consumes on a fresh bucket, then two more one second later
C12_Witness ==
    \E u \in Users :
        /\ Len(hist[u].log) = Capacity + 3
        /\ AtBirth(u, Capacity + 1)
        /\ ~hist[u].log[Capacity + 1].ok
        /\ hist[u].log[Capacity + 2].t = hist[u].born + TicksPerSecond
        /\ hist[u].log[Capacity + 2].ok
        /\ hist[u].log[Capacity + 3].t = hist[u].born + TicksPerSecond
        /\ ~hist[u].log[Capacity + 3].ok

\* identity u makes a consume in this step and it is rejected
Rejected(u) ==
    /\ Len(hist'[u].log) = Len(hist[u].log) + 1
    /\ ~hist'[u].log[Len(hist'[u].log)].ok

InStop(c) == call[c].op = "stop" /\ call[c].pc # "ret"

\* C13: every stop call returns in the end, whatever the other callers do
\* while it waits for the Capture Loop
C13_StopReturns ==
    \A c \in Callers : InStop(c) ~> ~InStop(c)

\* an iteration of Capture Loop t ends in this step without a new frame: the
\* read gave nothing, or converting or encoding the frame failed
IterationFails(t) ==
    /\ t <= Len(tasks)
    /\ tasks[t].pc \in {"read_call", "cvt_call", "enc_call"}
    /\ tasks'[t].pc \in {"check", "failed"}
    /\ nframes' = nframes

\* C14: an iteration that fails leaves the Capture Loop alive and the Frame
\* Store as it was, and no stop call ends with the loop's exception
C14_FailureContained ==
    [][/\ \A t \in TaskIds :
             IterationFails(t) => tasks'[t].pc = "check" /\ latest' = latest
       /\ \A c \in Callers : Finishes(c, "stop") => call'[c].res = "ok"]_vars

\* C15: whenever no operation is in progress, a Capture Loop is alive if and
\* only if the running flag is set
C15_LoopIffRunning ==
    AllIdle => (running <=> Alive # {})

\* C16: every get_latest_frame returns absence if no frame has been published
\* yet, and otherwise the frame of the most recent publish, never an older one
C16_ReadsNewestFrame ==
    [][\A c \in Callers :
          Begins(c, "get_latest_frame") => call'[c].fr = nframes]_vars

\* resume has just ended for caller c, the manager is Running and n frames
\* have been published so far
Resumed(c, n) ==
    /\ call[c].op = "resume" /\ call[c].pc = "ret" /\ call[c].res = "ok"
    /\ running /\ ~paused
    /\ nframes = n

\* C17: after a resume that leaves the manager Running, a newer frame is
\* published in the end, unless a stop or a pause comes first
C17_FrameAfterResume ==
    \A c \in Callers : \A n \in 0..(MaxFrames - 1) :
        Resumed(c, n) ~> (nframes > n \/ ~running \/ paused)

\* what a start that went on to open the device leaves behind when it ends
\* for caller c: Running on the capture it opened with one new Capture Loop,
\* or Stopped with the device released and a device-unavailable error
StartOutcome(c) ==
    LET h == call[c].h
    IN  IF handles[h].ok
        THEN /\ call[c].res = "ok"
             /\ running /\ ~paused
             /\ cap = h /\ IsOpened(h)
             /\ task = Len(tasks) /\ tasks[task].pc = "check"
             /\ Alive = {task}
        ELSE /\ call[c].res = "DeviceUnavailable"
             /\ ~running
             /\ handles[h].rel = 1
             /\ Alive = {}

\* C18: on a stopped manager resume does what start does: it goes on to open
\* the device without touching the manager, and ends as a start ends
C18_ResumeStoppedIsStart ==
    [][\A c \in Callers : \A o \in {"start", "resume"} :
          /\ Begins(c, o) /\ ~running
                => call'[c].pc = "open_call" /\ UNCHANGED mgr
          /\ Finishes(c, o) /\ call'[c].h # 0 => StartOutcome(c)']_vars

\* a resume on a stopped manager has opened the device and ended Running
C18_Witness ==
    \E c \in Callers :
        /\ call[c].op = "resume" /\ call[c].pc = "ret"
        /\ call[c].sp /\ call[c].res = "ok"
        /\ running /\ cap = call[c].h /\ Alive = {task}

\* C20: a start or resume that spawns the Capture Loop leaves the manager
\* Running with the paused flag cleared, whatever the flag was before, so the
\* new loop does not begin paused
C20_StartClearsPaused ==
    [][\A c \in Callers : \A o \in {"start", "resume"} :
          Finishes(c, o) /\ call'[c].sp => running' /\ ~paused']_vars

\* a start on a stopped manager whose paused flag is set has found the
\* device open and is about to spawn the loop
C20_Witness ==
    \E c \in Callers :
        /\ call[c].op = "start" /\ call[c].pc = "isopen_ret" /\ call[c].b
        /\ ~running /\ paused

====
